---- MODULE Spec2Model ----
(***************************************************************************)
(* Model of src/Restify.js: the Restify schema service.                    *)
(*                                                                         *)
(*  - the constructor (schema resolution, two passes over the collections) *)
(*  - the pure helpers invRelation and the stmt* statement builders        *)
(*  - the asynchronous workflows reset() and sync() running on their own   *)
(*    Connection objects against a database                                *)
(*  - connect(), exec() and end() used directly by the application         *)
(*                                                                         *)
(* Names (collection names, field names, table names) are JavaScript       *)
(* strings; they are modelled as sequences of one-character strings so     *)
(* that the escaping functions can work character by character.            *)
(* SQL text is a TLA+ string.  The TLA+ lexer does not accept the          *)
(* character U+0060 (backtick) inside a string literal, so it is written   *)
(* as the character BQ below; no other character of the model is BQ.       *)
(***************************************************************************)
EXTENDS Integers, Sequences, FiniteSets, TLC

VARIABLES
    config,        \* config.schema handed to `new Restify(config)`
    phase,         \* "new" | "constructed" | "threw"  (outcome of the constructor)
    collections,   \* this._collections of the instance (<<>> when there is none)
    error,         \* class of the exception thrown by the constructor, or "none"
    fnName,        \* the helper method called last ("none" before any call)
    fnArg,         \* its argument
    fnRet,         \* what it returned or threw
    db,            \* the database: the set of names of the existing tables
    conns,         \* the Connection objects created so far, in creation order:
                   \* by reset(), by sync(), or by a caller of connect()
    calls          \* the reset()/sync() invocations

vars == <<config, phase, collections, error, fnName, fnArg, fnRet, db, conns, calls>>
schemaVars == <<config, phase, collections, error>>
helperVars == <<fnName, fnArg, fnRet>>
opsVars == <<db, conns, calls>>

-----------------------------------------------------------------------------
(* JavaScript values *)

\* the value `undefined` (also stands for JSON null: the code tests `== null`)
Undef == <<"undefined">>

\* booleans and the string 'false' as values of a descriptor attribute
BoolTrue == <<"true">>
BoolFalse == <<"false">>
StrFalse == <<"'false'">>

ONE_TO_ONE == <<"O", "n", "e", "T", "o", "O", "n", "e">>
ONE_TO_MANY == <<"O", "n", "e", "T", "o", "M", "a", "n", "y">>
MANY_TO_ONE == <<"M", "a", "n", "y", "T", "o", "O", "n", "e">>
MANY_TO_MANY == <<"M", "a", "n", "y", "T", "o", "M", "a", "n", "y">>

RelationKinds == {ONE_TO_ONE, ONE_TO_MANY, MANY_TO_ONE, MANY_TO_MANY}

\* a relation tag that is none of the four kinds
BogusRelation == <<"O", "n", "e">>

IdField == <<"_", "i", "d">>
IntType == <<"i", "n", "t">>
StringType == <<"s", "t", "r", "i", "n", "g">>

\* a property every plain object inherits from Object.prototype
ToStringName == <<"t", "o", "S", "t", "r", "i", "n", "g">>
InheritedNames == {ToStringName}

-----------------------------------------------------------------------------
(* Plain objects: own enumerable properties in insertion order.            *)
(* An object is a sequence of [k |-> key, v |-> value] with distinct keys. *)

Keys(obj) == [i \in 1..Len(obj) |-> obj[i].k]

HasOwn(obj, key) == \E i \in 1..Len(obj) : obj[i].k = key

IndexOf(obj, key) == CHOOSE i \in 1..Len(obj) : obj[i].k = key

\* obj[key] for an own property
Get(obj, key) == obj[IndexOf(obj, key)].v

\* obj[key] = val : an existing property keeps its position, a new one is appended
Put(obj, key, val) ==
    IF HasOwn(obj, key)
    THEN [obj EXCEPT ![IndexOf(obj, key)] = [k |-> key, v |-> val]]
    ELSE Append(obj, [k |-> key, v |-> val])

\* a field descriptor; absent attributes are Undef
Descriptor(type, nullable, relation, as, master) ==
    [type |-> type, nullable |-> nullable, relation |-> relation,
     as |-> as, master |-> master]

-----------------------------------------------------------------------------
(* Restify.invRelation *)

Thrown(cls) == [threw |-> TRUE, val |-> cls]
Returned(v) == [threw |-> FALSE, val |-> v]

\* invRelation with the ManyToOne case returning its argument
invRelationNoFlip(relation) ==
    IF relation = ONE_TO_ONE \/ relation = MANY_TO_MANY THEN Returned(relation)
    ELSE IF relation = ONE_TO_MANY THEN Returned(MANY_TO_ONE)
    ELSE IF relation = MANY_TO_ONE THEN Returned(MANY_TO_ONE)
    ELSE Thrown("Error")

invRelation(relation) ==
    IF relation = ONE_TO_ONE \/ relation = MANY_TO_MANY THEN Returned(relation)
    ELSE IF relation = ONE_TO_MANY THEN Returned(MANY_TO_ONE)
    ELSE IF relation = MANY_TO_ONE THEN Returned(ONE_TO_MANY)
    ELSE Thrown("Error")

-----------------------------------------------------------------------------
(* Restify.constructor, first pass (lines 42-61) *)

\* collection._id = { type: 'int', nullable: 'false' }
IdDescriptor == Descriptor(IntType, StrFalse, Undef, Undef, Undef)

\* body of the inner loop: default nullable, mark master
MarkField(field) ==
    LET f1 == IF field.nullable = Undef THEN [field EXCEPT !.nullable = BoolTrue]
              ELSE field
    IN  IF f1.relation # Undef THEN [f1 EXCEPT !.master = BoolTrue] ELSE f1

\* body of the outer loop for one collection
MarkCollection(collection) ==
    LET withId == Put(collection, IdField, IdDescriptor)
    IN  [i \in 1..Len(withId) |-> [k |-> withId[i].k, v |-> MarkField(withId[i].v)]]

FirstPass(cols) ==
    [i \in 1..Len(cols) |-> [k |-> cols[i].k, v |-> MarkCollection(cols[i].v)]]

-----------------------------------------------------------------------------
(* Restify.constructor, second pass (lines 63-77) *)

\* the descriptor assigned at lines 69-74 (inv is the value invRelation returned)
InverseDescriptor(collectionName, fieldName, inv) ==
    Descriptor(collectionName, BoolFalse, inv, fieldName, Undef)

\* One visit of the inner loop: collection ci, field fi of the state st =
\* [cols, threw, err].  rhsFirst tells whether the engine evaluates the
\* right-hand side (the call of invRelation) before it rejects the undefined
\* assignment target; the two orders differ only when both would throw.
VisitField(st, ci, fi, rhsFirst) ==
    LET collectionName == st.cols[ci].k
        fieldName == st.cols[ci].v[fi].k
        field == st.cols[ci].v[fi].v
        inv == invRelation(field.relation)
        targetOwn == HasOwn(st.cols, field.type)
        targetInherited == ~targetOwn /\ field.type \in InheritedNames
        targetUndefined == ~targetOwn /\ ~targetInherited
    IN  IF field.master # BoolTrue THEN st
        ELSE IF targetUndefined /\ (~rhsFirst \/ ~inv.threw)
             THEN [st EXCEPT !.threw = TRUE, !.err = "TypeError"]
        ELSE IF inv.threw
             THEN [st EXCEPT !.threw = TRUE, !.err = inv.val]
        ELSE IF targetInherited
             \* the property is set on the inherited function object,
             \* this._collections does not change
             THEN st
        ELSE [st EXCEPT !.cols =
                 Put(st.cols, field.type,
                     Put(Get(st.cols, field.type), field.as,
                         InverseDescriptor(collectionName, fieldName, inv.val)))]

\* for(let fieldName in collection): the keys present when the loop starts
\* (positions fi..n); a property added meanwhile is a derived descriptor
\* without `master`, visiting it changes nothing
RECURSIVE VisitFields(_, _, _, _, _)
VisitFields(st, ci, fi, n, rhsFirst) ==
    IF st.threw \/ fi > n THEN st
    ELSE VisitFields(VisitField(st, ci, fi, rhsFirst), ci, fi + 1, n, rhsFirst)

RECURSIVE VisitCollections(_, _, _)
VisitCollections(st, ci, rhsFirst) ==
    IF st.threw \/ ci > Len(st.cols) THEN st
    ELSE VisitCollections(
             VisitFields(st, ci, 1, Len(st.cols[ci].v), rhsFirst),
             ci + 1, rhsFirst)

SecondPass(cols, rhsFirst) ==
    VisitCollections([cols |-> cols, threw |-> FALSE, err |-> "none"], 1, rhsFirst)

\* the whole constructor on the deep copy of config.schema
Resolve(schema, rhsFirst) == SecondPass(FirstPass(schema), rhsFirst)

-----------------------------------------------------------------------------
(* Schema documents handed to the constructor *)

\* bounds of the document space
MaxCollections == 2
MaxFields == 2

AllCollectionNames == << <<"A">>, <<"B">>, <<"C">>, <<"D">> >>
MissingName == <<"X">>
FieldNames == << <<"f">>, IdField, <<"g">> >>

CollectionNamesOf(n) == {AllCollectionNames[i] : i \in 1..n}

\* descriptors as written in a document of n collections
PlainDescriptors ==
    {Descriptor(StringType, nl, Undef, Undef, Undef) : nl \in {Undef, BoolFalse}}

RelationDescriptors(n) ==
    {Descriptor(t, Undef, r, a, Undef) :
        t \in CollectionNamesOf(n) \cup {MissingName, ToStringName},
        r \in RelationKinds \cup {BogusRelation},
        a \in {FieldNames[j] : j \in 1..Len(FieldNames)}}

DeclaredDescriptors(n) == PlainDescriptors \cup RelationDescriptors(n)

\* a slot <<i, j>> is field FieldNames[j] of collection i
Slots(n) == (1..n) \X (1..Len(FieldNames))

\* the document with n collections whose declared fields are the slots S,
\* described by d
Document(n, S, d) ==
    [i \in 1..n |->
        [k |-> AllCollectionNames[i],
         v |-> LET js == SelectSeq([j \in 1..Len(FieldNames) |-> j],
                                   LAMBDA j : <<i, j>> \in S)
               IN  [x \in 1..Len(js) |->
                       [k |-> FieldNames[js[x]], v |-> d[<<i, js[x]>>]]]]]

-----------------------------------------------------------------------------
(* new Restify(config) *)

InitResolve ==
    /\ config = <<>>
    /\ phase = "new"
    /\ collections = <<>>
    /\ error = "none"
    /\ fnName = "none" /\ fnArg = Undef /\ fnRet = Undef
    /\ db = {} /\ conns = <<>> /\ calls = <<>>

\* new Restify(config) on the document of n collections with declared
\* fields S described by d: this._collections is the deep copy of
\* config.schema, resolved in place; config itself is not touched; an
\* exception leaves the caller without an instance
Construct ==
    /\ phase = "new"
    /\ \E n \in 1..MaxCollections :
         \E S \in {T \in SUBSET Slots(n) : Cardinality(T) <= MaxFields} :
            \E d \in [S -> DeclaredDescriptors(n)] :
               \E rhsFirst \in BOOLEAN :
                  LET schema == Document(n, S, d)
                      r == Resolve(schema, rhsFirst)
                  IN  /\ config' = schema
                      /\ IF r.threw
                         THEN /\ phase' = "threw"
                              /\ error' = r.err
                              /\ collections' = <<>>
                         ELSE /\ phase' = "constructed"
                              /\ error' = "none"
                              /\ collections' = r.cols
    /\ UNCHANGED <<helperVars, opsVars>>

NextResolve == Construct

SpecResolve == InitResolve /\ [][NextResolve]_vars

-----------------------------------------------------------------------------
(* The escaping primitives of the mysql module and the statement builders *)

\* stands for the backtick character U+0060
BQ == "^"

RECURSIVE Text(_)
\* the string made of the characters cs
Text(cs) == IF cs = <<>> THEN "" ELSE Head(cs) \o Text(Tail(cs))

\* mysql.escapeId(id): backticks are doubled, a dot separates two quoted
\* parts, the whole is put between backticks
RECURSIVE EscapeIdChars(_)
EscapeIdChars(cs) ==
    IF cs = <<>> THEN ""
    ELSE (IF Head(cs) = BQ THEN BQ \o BQ
          ELSE IF Head(cs) = "." THEN BQ \o "." \o BQ
          ELSE Head(cs)) \o EscapeIdChars(Tail(cs))

escapeId(id) == BQ \o EscapeIdChars(id) \o BQ

\* mysql.escape(val) of a string: quote and backslash get a backslash in
\* front, the whole is put between single quotes
RECURSIVE EscapeChars(_)
EscapeChars(cs) ==
    IF cs = <<>> THEN ""
    ELSE (IF Head(cs) = "'" THEN "\\'"
          ELSE IF Head(cs) = "\\" THEN "\\\\"
          ELSE Head(cs)) \o EscapeChars(Tail(cs))

escapeString(val) == "'" \o EscapeChars(val) \o "'"

\* mysql.escape(val) of the numbers 0 and 1
escapeNumber(n) == IF n = 1 THEN "1" ELSE "0"

stmtCreateTable(table) ==
    "CREATE TABLE IF NOT EXISTS " \o escapeId(table) \o " ("
        \o "id int, PRIMARY KEY(id)"
        \o ");"

\* database is this._database.db
stmtSelectTableName(database) ==
    "SELECT table_name "
        \o "FROM information_schema.tables "
        \o "WHERE table_schema=" \o escapeString(database) \o ";"

stmtSetForeignKeyCheck(state) ==
    "SET FOREIGN_KEY_CHECKS=" \o escapeNumber(IF state THEN 1 ELSE 0) \o ";"

stmtDropTable(table) == "DROP TABLE " \o escapeId(table) \o ";"

-----------------------------------------------------------------------------
(* Calls of the helper methods on arbitrary arguments *)

\* longest generated name
MaxNameLen == 3

NameChars == {"u", BQ, "."}
ValueChars == {"d", "'", "\\"}

Users == <<"u", "s", "e", "r", "s">>

StringsOver(chars) == UNION {[1..n -> chars] : n \in 0..MaxNameLen}

TableNameInputs == StringsOver(NameChars) \cup {Users}
DatabaseNameInputs == StringsOver(ValueChars)
RelationInputs == RelationKinds \cup {BogusRelation, Undef}

InitHelpers ==
    /\ config = <<>>
    /\ phase = "constructed"
    /\ collections = <<>>
    /\ error = "none"
    /\ fnName = "none" /\ fnArg = Undef /\ fnRet = Undef
    /\ db = {} /\ conns = <<>> /\ calls = <<>>

CallInvRelation ==
    /\ phase = "constructed"
    /\ \E relation \in RelationInputs :
          /\ fnName' = "invRelation"
          /\ fnArg' = relation
          /\ fnRet' = invRelation(relation)
    /\ UNCHANGED <<schemaVars, opsVars>>

CallStmtCreateTable ==
    /\ phase = "constructed"
    /\ \E table \in TableNameInputs :
          /\ fnName' = "stmtCreateTable"
          /\ fnArg' = table
          /\ fnRet' = stmtCreateTable(table)
    /\ UNCHANGED <<schemaVars, opsVars>>

CallStmtDropTable ==
    /\ phase = "constructed"
    /\ \E table \in TableNameInputs :
          /\ fnName' = "stmtDropTable"
          /\ fnArg' = table
          /\ fnRet' = stmtDropTable(table)
    /\ UNCHANGED <<schemaVars, opsVars>>

CallStmtSelectTableName ==
    /\ phase = "constructed"
    /\ \E database \in DatabaseNameInputs :
          /\ fnName' = "stmtSelectTableName"
          /\ fnArg' = database
          /\ fnRet' = stmtSelectTableName(database)
    /\ UNCHANGED <<schemaVars, opsVars>>

CallStmtSetForeignKeyCheck ==
    /\ phase = "constructed"
    /\ \E state \in BOOLEAN :
          /\ fnName' = "stmtSetForeignKeyCheck"
          /\ fnArg' = state
          /\ fnRet' = stmtSetForeignKeyCheck(state)
    /\ UNCHANGED <<schemaVars, opsVars>>

NextHelpers ==
    \/ CallInvRelation
    \/ CallStmtCreateTable
    \/ CallStmtDropTable
    \/ CallStmtSelectTableName
    \/ CallStmtSetForeignKeyCheck

SpecHelpers == InitHelpers /\ [][NextHelpers]_vars

-----------------------------------------------------------------------------
(* reset() and sync() on a constructed service *)

\* number of reset()/sync() invocations in one run
MaxInvocations == 2

\* the service of these runs: collection A declares f, a OneToMany relation
\* to collection B known there as g
OpsSchema ==
    Document(2, {<<1, 1>>},
             [x \in {<<1, 1>>} |->
                 Descriptor(AllCollectionNames[2], Undef, ONE_TO_MANY,
                            FieldNames[3], Undef)])

\* config.database.db
DatabaseName == <<"d", "b">>

\* a table of the database that is no collection of the schema
LegacyTable == <<"Z">>

\* the tables a run can see
TableUniverse == {AllCollectionNames[1], AllCollectionNames[2], LegacyTable}

\* a statement handed to Connection.exec: its text and what the database
\* does with it
Statement(kind, arg, sql) == [kind |-> kind, arg |-> arg, sql |-> sql]

SelectStatement == Statement("select", DatabaseName, stmtSelectTableName(DatabaseName))
ForeignKeyStatement(state) == Statement("fk", state, stmtSetForeignKeyCheck(state))
DropStatement(table) == Statement("drop", table, stmtDropTable(table))
CreateStatement(table) == Statement("create", table, stmtCreateTable(table))

\* connect(), exec(sql) and end() are public: besides the invocations of
\* reset() and sync(), the application holding the service can open
\* connections and issue statements of its own.  Bounds of that use:
\* the connections it opens, and the calls (exec or end) it makes on each
MaxOwnConnections == 1
MaxOwnCalls == 2

\* the application, as opener of connections and issuer of statements
\* (the invocations are 1, 2, ...)
Application == 0

\* the statements the application issues on its connections
OwnStatements == {DropStatement(AllCollectionNames[1])}

\* reset() re-enabling the foreign-key checks before it drops the tables
ResetStatementsEnableFirst(tableNameRecords) ==
    <<ForeignKeyStatement(FALSE), ForeignKeyStatement(TRUE)>>
        \o [x \in 1..Len(tableNameRecords) |->
               DropStatement(tableNameRecords[x].table_name)]

\* reset(), lines 108-112: what follows the listing, given its records
ResetStatements(tableNameRecords) ==
    <<ForeignKeyStatement(FALSE)>>
        \o [x \in 1..Len(tableNameRecords) |->
               DropStatement(tableNameRecords[x].table_name)]
        \o <<ForeignKeyStatement(TRUE)>>

\* sync(), lines 126-128: one statement per key of this._collections
SyncStatements(cols) ==
    [x \in 1..Len(cols) |-> CreateStatement(Keys(cols)[x])]

\* conn.exec(...) without await: every statement is handed over at once
ExecWithoutAwait(todo) == todo

\* `await conn.exec(...)`: of the statements still to run, the ones handed
\* to the connection before the invocation suspends
AwaitExec(todo) == SubSeq(todo, 1, 1)

\* connect() handing out one connection kept on the service
connectShared(cs, i) ==
    IF cs = <<>>
    THEN <<[owner |-> i, pending |-> <<>>, log |-> <<>>, closed |-> FALSE]>>
    ELSE cs

\* new Connection(restify), called by i (an invocation or the application):
\* a connection of its own
connect(cs, i) ==
    Append(cs, [owner |-> i, pending |-> <<>>, log |-> <<>>, closed |-> FALSE])

IdleCall == [op |-> "none", pc |-> "idle", conn |-> 0,
             rows |-> <<>>, todo |-> <<>>]

InitOps ==
    /\ config = OpsSchema
    /\ phase = "constructed"
    /\ collections = Resolve(OpsSchema, TRUE).cols
    /\ error = "none"
    /\ fnName = "none" /\ fnArg = Undef /\ fnRet = Undef
    /\ db \in {{}, TableUniverse}
    /\ conns = <<>>
    /\ calls = [i \in 1..MaxInvocations |-> IdleCall]

\* end() has been called on the connection cn
Ended(cn) == \E k \in 1..Len(cn.log) : cn.log[k].what = "end"

\* Connection.exec(sql) called by i on connection c of cs: conn.query
\* enqueues the statement; late tells that end() was called before, the
\* mysql module then answers the query with an error
Exec(cs, c, i, stmts) ==
    [cs EXCEPT
        ![c].pending = @ \o [x \in 1..Len(stmts) |->
                                [by |-> i, stmt |-> stmts[x], late |-> Ended(cs[c])]],
        ![c].log = @ \o [x \in 1..Len(stmts) |->
                            [by |-> i, what |-> "query", sql |-> stmts[x].sql]]]

\* Connection.end() called by i
End(cs, c, i) ==
    [cs EXCEPT ![c].log = Append(@, [by |-> i, what |-> "end", sql |-> ""])]

\* the invocation i runs on until its next await: it hands the next
\* statement to its connection, or calls end() when none is left
RunOn(cs, cl, i, todo) ==
    LET c == cl[i].conn
        now == AwaitExec(todo)
    IN  IF todo = <<>>
        THEN [conns |-> End(cs, c, i),
              calls |-> [cl EXCEPT ![i].pc = "end", ![i].todo = <<>>]]
        ELSE [conns |-> Exec(cs, c, i, now),
              calls |-> [cl EXCEPT ![i].pc = "exec",
                                   ![i].todo = SubSeq(todo, Len(now) + 1, Len(todo))]]

\* the next invocation not yet made
NextCall(i) ==
    /\ calls[i].pc = "idle"
    /\ \A j \in 1..(i - 1) : calls[j].pc # "idle"

\* reset() is called: lines 105-107 up to the first await
Reset(i) ==
    /\ phase = "constructed"
    /\ NextCall(i)
    /\ LET cs == connect(conns, i)
           c == Len(cs)
       IN  /\ conns' = Exec(cs, c, i, <<SelectStatement>>)
           /\ calls' = [calls EXCEPT ![i] =
                           [op |-> "reset", pc |-> "list", conn |-> c,
                            rows |-> <<>>, todo |-> <<>>]]
    /\ UNCHANGED <<schemaVars, helperVars, db>>

\* sync() is called: lines 124-127 up to the first await
Sync(i) ==
    /\ phase = "constructed"
    /\ NextCall(i)
    /\ LET cs == connect(conns, i)
           c == Len(cs)
           started == [calls EXCEPT ![i] =
                          [op |-> "sync", pc |-> "exec", conn |-> c,
                           rows |-> <<>>, todo |-> <<>>]]
           r == RunOn(cs, started, i, SyncStatements(collections))
       IN  /\ conns' = r.conns
           /\ calls' = r.calls
    /\ UNCHANGED <<schemaVars, helperVars, db>>

\* what the database does with a statement: the listing returns one
\* record per table, in an order of the database's choosing
Rows(tables) ==
    LET orders == {o \in [1..Cardinality(tables) -> tables] :
                      \A x, y \in DOMAIN o : x # y => o[x] # o[y]}
    IN  {[x \in DOMAIN o |-> [table_name |-> o[x]]] : o \in orders}

Fails(stmt, tables) == stmt.kind = "drop" /\ stmt.arg \notin tables

Effect(stmt, tables) ==
    IF stmt.kind = "drop" THEN tables \ {stmt.arg}
    ELSE IF stmt.kind = "create" THEN tables \cup {stmt.arg}
    ELSE tables

\* the callback of conn.query for the oldest statement of connection c
\* (lines 216-220) and the continuation of the invocation that awaits it:
\* an error rejects the invocation, rows let it run on to its next await;
\* a statement of the application only settles the promise exec returned
QueryResult(c) ==
    /\ c \in 1..Len(conns)
    /\ conns[c].pending # <<>>
    /\ LET p == Head(conns[c].pending)
           i == p.by
           cs == [conns EXCEPT ![c].pending = Tail(@)]
       IN  \E err \in BOOLEAN :
              IF err \/ Fails(p.stmt, db) \/ p.late
              THEN /\ db' = db
                   /\ conns' = [cs EXCEPT ![c].log =
                                   Append(@, [by |-> i, what |-> "error", sql |-> p.stmt.sql])]
                   /\ calls' = IF i # Application /\ calls[i].pc \in {"list", "exec"}
                               THEN [calls EXCEPT ![i].pc = "rejected", ![i].todo = <<>>]
                               ELSE calls
              ELSE \E rows \in IF p.stmt.kind = "select" THEN Rows(db) ELSE {<<>>} :
                   LET logged == [cs EXCEPT ![c].log =
                                     Append(@, [by |-> i, what |-> "rows", sql |-> p.stmt.sql])]
                       awaited == i # Application /\ calls[i].pc \in {"list", "exec"}
                       listed == awaited /\ calls[i].pc = "list"
                       cl == IF listed THEN [calls EXCEPT ![i].rows = rows] ELSE calls
                       todo == IF listed THEN ResetStatements(rows)
                               ELSE IF awaited THEN calls[i].todo ELSE <<>>
                       r == IF awaited
                            THEN RunOn(logged, cl, i, todo)
                            ELSE [conns |-> logged, calls |-> cl]
                   IN  /\ db' = Effect(p.stmt, db)
                       /\ conns' = r.conns
                       /\ calls' = r.calls
    /\ UNCHANGED <<schemaVars, helperVars>>

\* the callback of conn.end (lines 226-230) and the end of the invocation
EndResult(i) ==
    /\ i \in 1..MaxInvocations
    /\ calls[i].pc = "end"
    /\ conns[calls[i].conn].pending = <<>>
    /\ \E err \in BOOLEAN :
          /\ calls' = [calls EXCEPT ![i].pc = IF err THEN "rejected" ELSE "resolved"]
          /\ conns' = [conns EXCEPT ![calls[i].conn].closed = TRUE]
    /\ UNCHANGED <<schemaVars, helperVars, db>>

\* the connections the application opened
OwnConnections == {c \in 1..Len(conns) : conns[c].owner = Application}

\* the calls of exec and end the application made on connection c
OwnCalls(c) ==
    Len(SelectSeq(conns[c].log, LAMBDA e : e.what \in {"query", "end"}))

\* restify.connect() called by the application (lines 99-101): a new
\* Connection, no statement yet
Connect ==
    /\ phase = "constructed"
    /\ Cardinality(OwnConnections) < MaxOwnConnections
    /\ conns' = connect(conns, Application)
    /\ UNCHANGED <<schemaVars, helperVars, db, calls>>

\* conn.exec(sql) called by the application on a connection it opened
\* (lines 213-222), also after it called end() on it
OwnExec(c) ==
    /\ c \in OwnConnections
    /\ OwnCalls(c) < MaxOwnCalls
    /\ \E stmt \in OwnStatements :
          conns' = Exec(conns, c, Application, <<stmt>>)
    /\ UNCHANGED <<schemaVars, helperVars, db, calls>>

\* conn.end() called by the application on a connection it opened
\* (lines 224-232)
OwnEnd(c) ==
    /\ c \in OwnConnections
    /\ OwnCalls(c) < MaxOwnCalls
    /\ conns' = End(conns, c, Application)
    /\ UNCHANGED <<schemaVars, helperVars, db, calls>>

\* the callback of conn.end for a connection of the application
\* (lines 226-230): the connection is closed, the promise settles
OwnEndResult(c) ==
    /\ c \in OwnConnections
    /\ Ended(conns[c])
    /\ ~conns[c].closed
    /\ conns[c].pending = <<>>
    /\ conns' = [conns EXCEPT ![c].closed = TRUE]
    /\ UNCHANGED <<schemaVars, helperVars, db, calls>>

MaxConnections == MaxInvocations + MaxOwnConnections

NextOps ==
    \/ \E i \in 1..MaxInvocations : Reset(i)
    \/ \E i \in 1..MaxInvocations : Sync(i)
    \/ Connect
    \/ \E c \in 1..MaxConnections : OwnExec(c)
    \/ \E c \in 1..MaxConnections : OwnEnd(c)
    \/ \E c \in 1..MaxConnections : QueryResult(c)
    \/ \E i \in 1..MaxInvocations : EndResult(i)
    \/ \E c \in 1..MaxConnections : OwnEndResult(c)

SpecOps == InitOps /\ [][NextOps]_vars

-----------------------------------------------------------------------------
(* Properties of the constructor (SpecResolve) *)

\* the positions <<ci, fi>> of the fields the first pass marks master
MasterFields(schema) ==
    LET marked == FirstPass(schema)
    IN  {p \in (1..Len(marked)) \X (1..(Len(FieldNames) + 1)) :
            /\ p[2] <= Len(marked[p[1]].v)
            /\ marked[p[1]].v[p[2]].v.master = BoolTrue}

\* the collection B of the resolved schema holds the inverse of the master
\* field at position p of the marked schema
HasInverse(resolved, marked, p) ==
    LET A == marked[p[1]].k
        F == marked[p[1]].v[p[2]].k
        field == marked[p[1]].v[p[2]].v
        B == field.type
        R == field.as
        K == invRelation(field.relation)
    IN  /\ HasOwn(resolved, B)
        /\ HasOwn(Get(resolved, B), R)
        /\ ~K.threw
        /\ Get(Get(resolved, B), R) = Descriptor(A, BoolFalse, K.val, F, Undef)

\* every master field names a collection of the document and one of the
\* four relation kinds
WellFormed(schema) ==
    LET marked == FirstPass(schema)
    IN  \A p \in MasterFields(schema) :
            /\ HasOwn(marked, marked[p[1]].v[p[2]].v.type)
            /\ marked[p[1]].v[p[2]].v.relation \in RelationKinds

\* C1: after construction every master field F of collection A with
\* type = B, as = R, relation = K has its inverse in the resolved schema:
\* B holds a field R with type = A, nullable = false, relation = inverse(K),
\* as = F -- for every document whose master fields name collections of
\* the document and relation kinds, colliding names included.
C1_EveryMasterHasInverse ==
    (phase = "constructed" /\ WellFormed(config)) =>
        \A p \in MasterFields(config) :
            HasInverse(collections, FirstPass(config), p)

\* some master field's `as` names a field the target already has after the
\* first pass (declared or _id), or two master fields derive the same field
NameConflict(schema) ==
    LET marked == FirstPass(schema)
        M == MasterFields(schema)
        fld(p) == marked[p[1]].v[p[2]].v
    IN  \/ \E p \in M : HasOwn(Get(marked, fld(p).type), fld(p).as)
        \/ \E p, q \in M :
              p # q /\ fld(p).type = fld(q).type /\ fld(p).as = fld(q).as

\* C4: when the `as` name of a master field is the name of a field that
\* already exists on the target collection, construction fails with
\* RelationNameConflict.
C4_ConflictAbortsConstruction ==
    (phase # "new" /\ WellFormed(config) /\ NameConflict(config)) =>
        (phase = "threw" /\ error = "RelationNameConflict")

\* C5: in every resolved schema every collection has exactly one field _id,
\* of the integer type, with nullable the boolean false, and no relation.
C5_IdentityField ==
    phase = "constructed" =>
        \A ci \in 1..Len(collections) :
            LET collection == collections[ci].v
            IN  /\ Cardinality({fi \in 1..Len(collection) :
                                   collection[fi].k = IdField}) = 1
                /\ Get(collection, IdField).type = IntType
                /\ Get(collection, IdField).nullable = BoolFalse
                /\ Get(collection, IdField).relation = Undef

\* some master field's type names no collection of the document
UnknownReference(schema) ==
    LET marked == FirstPass(schema)
    IN  \E p \in MasterFields(schema) :
            ~HasOwn(marked, marked[p[1]].v[p[2]].v.type)

\* C6: when the type of a master field names a collection absent from the
\* document, construction is aborted and no instance with a partially
\* resolved schema is obtained (the class of the exception is left open
\* here: any exception counts as the failure the claim asks for).
C6_UnknownCollectionAborts ==
    (phase # "new" /\ UnknownReference(config)) =>
        (phase = "threw" /\ collections = <<>>)

-----------------------------------------------------------------------------
(* Properties of the helpers (SpecHelpers) *)

\* C9: the relation inverse is an involution on the four relation kinds:
\* inverting the result of invRelation(k) gives k back.
C9_InverseInvolution ==
    (fnName = "invRelation" /\ fnArg \in RelationKinds) =>
        (~fnRet.threw /\ invRelation(fnRet.val) = Returned(fnArg))

C9_Witness ==
    fnName = "invRelation" /\ fnArg = ONE_TO_MANY /\ fnRet = Returned(MANY_TO_ONE)

\* C10: stmtCreateTable(name) is exactly the text
\* CREATE TABLE IF NOT EXISTS <escaped name> (id INTEGER, PRIMARY KEY(id));
\* whatever the name; the escaped name is taken as the code's escaping
\* gives it, so only the fixed text around it is compared.
C10_CreateTableInteger ==
    fnName = "stmtCreateTable" =>
        fnRet = "CREATE TABLE IF NOT EXISTS " \o escapeId(fnArg)
                    \o " (id INTEGER, PRIMARY KEY(id));"

-----------------------------------------------------------------------------
(* Properties of reset() and sync() (SpecOps) *)

Started == {i \in DOMAIN calls : calls[i].pc # "idle"}

\* what invocation i did on its connection and what came back, in order
LogOf(i) ==
    SelectSeq(conns[calls[i].conn].log, LAMBDA e : e.by = i)

\* the statements and the release invocation i issued, in order
IssuedBy(i) ==
    LET l == SelectSeq(LogOf(i), LAMBDA e : e.what \in {"query", "end"})
    IN  [k \in 1..Len(l) |-> <<l[k].what, l[k].sql>>]

IsPrefix(a, b) == Len(a) <= Len(b) /\ a = SubSeq(b, 1, Len(a))

\* C2: an invocation that has finished, resolved or rejected, has called
\* end on the connection it acquired.
C2_ConnectionReleased ==
    \A i \in Started :
        calls[i].pc \in {"resolved", "rejected"} =>
            \E k \in 1..Len(LogOf(i)) : LogOf(i)[k].what = "end"

\* the order the claim gives for a reset() whose listing returned rows
ResetOrder(rows) ==
    << <<"query", stmtSelectTableName(DatabaseName)>>,
       <<"query", "SET FOREIGN_KEY_CHECKS=0;">> >>
      \o [x \in 1..Len(rows) |-> <<"query", stmtDropTable(rows[x].table_name)>>]
      \o << <<"query", "SET FOREIGN_KEY_CHECKS=1;">>, <<"end", "">> >>

\* C3: a reset() issues the listing query, the statement disabling the
\* foreign-key checks, one DROP TABLE per listed table, the statement
\* enabling the checks, then the release, in this order; a reset() that
\* resolved has issued all of them, with exactly the listed tables dropped.
C3_ResetOrder ==
    \A i \in Started :
        calls[i].op = "reset" =>
            /\ IsPrefix(IssuedBy(i), ResetOrder(calls[i].rows))
            /\ calls[i].pc = "resolved" =>
                  IssuedBy(i) = ResetOrder(calls[i].rows)

C3_Witness ==
    \E i \in Started :
        /\ calls[i].op = "reset"
        /\ calls[i].pc = "resolved"
        /\ Len(calls[i].rows) >= 2

\* C7: an invocation issues a statement only after the result of its
\* previous statement came back, has at most one statement outstanding,
\* and issues no statement after one of its statements failed.
C7_OneStatementAtATime ==
    \A i \in Started :
        LET l == LogOf(i)
            pending == conns[calls[i].conn].pending
        IN  /\ \A k \in 2..Len(l) :
                  l[k].what = "query" => l[k - 1].what = "rows"
            /\ \A k \in 1..Len(l) : \A m \in (k + 1)..Len(l) :
                  l[k].what = "error" => l[m].what # "query"
            /\ Cardinality({x \in 1..Len(pending) : pending[x].by = i}) <= 1

C7_Witness ==
    \E i \in Started :
        /\ calls[i].pc = "rejected"
        /\ Len(LogOf(i)) >= 6
        /\ LogOf(i)[Len(LogOf(i))].what = "error"

\* C8: every invocation of reset() or sync() has a connection of its own;
\* whatever is done on a connection is done by the one that opened it (an
\* invocation never uses the connection of another invocation or of the
\* application, nor the application the connection of an invocation); on
\* the connection of an invocation no statement is issued after end was
\* called on it.
C8_ConnectionOwnership ==
    /\ \A i \in Started : conns[calls[i].conn].owner = i
    /\ \A i, j \in Started : i # j => calls[i].conn # calls[j].conn
    /\ \A c \in 1..Len(conns) :
          LET l == conns[c].log
          IN  /\ \A k \in 1..Len(l) : l[k].by = conns[c].owner
              /\ conns[c].owner # Application =>
                    \A k \in 1..Len(l) : \A m \in (k + 1)..Len(l) :
                       l[k].what = "end" => l[m].what # "query"

C8_Witness ==
    /\ Cardinality(Started) >= 2
    /\ \A i \in Started :
          /\ calls[i].pc = "exec"
          /\ Len(LogOf(i)) >= 3
    /\ \E c \in 1..Len(conns) :
          /\ conns[c].owner = Application
          /\ Len(conns[c].log) >= 2

====
